---- MODULE Spec2Model ----
(***************************************************************************)
(* apmgo: an actions-per-minute tracker.                                   *)
(*                                                                         *)
(* The module models src/apm.go: the RingBuffer of event timestamps        *)
(* (NewRingBuffer, Append, GetAll), the APMTracker built on it             *)
(* (onAction, calculateCurrentAPM, calculateAverageAPM, updateGraph,       *)
(* updateGUI, onClosing) and the goroutines that drive it.                 *)
(*                                                                         *)
(* Three specifications share the definitions of the buffer:               *)
(*   SpecRB    the buffer alone, any capacity, any values;                 *)
(*   SpecConc  one goroutine in Append, one in GetAll, lock steps          *)
(*             and the copy loop interleaved;                              *)
(*   Spec      the tracker: clock, input loop, refresh chain, close.       *)
(* Times are milliseconds.  A slice is a sequence: Go index i is TLA+      *)
(* index i + 1.                                                            *)
(***************************************************************************)
EXTENDS Integers, Sequences, FiniteSets, TLC

VARIABLES
    rb,         \* the RingBuffer: [data, size, capacity, head]
    fault,      \* "none", or the runtime panic that ended the program
    hist,       \* history: every value appended so far, in order
    \* -- SpecRB
    capArg,     \* the argument given to NewRingBuffer
    built,      \* NewRingBuffer has been called
    snap,       \* the slice the last GetAll returned, as it was on return
    snapBacking,\* the array that slice points into: "fresh" or "data"
    \* -- SpecConc
    wlocked,    \* rb.mutex is held by a writer (Lock)
    readers,    \* number of holders of rb.mutex's read lock (RLock)
    pcW,        \* position of the goroutine in Append
    wval,       \* Append's argument
    pcR,        \* position of the goroutine in GetAll
    ri,         \* GetAll's loop index i
    result,     \* GetAll's result slice
    kCall,      \* appends done when GetAll was called
    kRet,       \* appends done when GetAll returned
    \* -- Spec
    clock,      \* time.Now(), in ms
    ticks,      \* number of clock advances so far
    startTime,  \* a.startTime
    peakAPM,    \* a.peakAPM
    running,    \* a.running
    proc,       \* "up", "exited" (main returned) or "crashed" (panic)
    pcGui,      \* position of the refresh chain (updateGUI)
    armed,      \* pending starts of updateGUI: the go statement, timers
    dueAt,      \* when the timer set by time.AfterFunc fires
    minuteAgo,  \* calculateCurrentAPM's cutoff
    actions,    \* calculateCurrentAPM's snapshot
    currentAPM, \* updateGUI's currentAPM
    elapsed,    \* time.Since(a.startTime), in ms
    avgAPM,     \* updateGUI's avgAPM
    now,        \* updateGraph's now
    data,       \* updateGraph's snapshot
    buckets,    \* updateGraph's buckets
    accessed,   \* bucket indices the last updateGraph used
    rates,      \* every value calculateCurrentAPM has returned
    polls       \* number of updateGUI runs that folded their rate into the peak

bufVars  == <<rb, fault, hist>>
rbVars   == <<capArg, built, snap, snapBacking>>
concVars == <<wlocked, readers, pcW, wval, pcR, ri, result, kCall, kRet>>
guiVars  == <<pcGui, armed, dueAt, minuteAgo, actions, currentAPM, elapsed, avgAPM,
              now, data, buckets, accessed, rates, polls, peakAPM>>
trkVars  == <<clock, ticks, startTime, running, proc, guiVars>>
vars     == <<bufVars, rbVars, concVars, trkVars>>

----------------------------------------------------------------------------
(* Bounds of the model *)

MinCap     == 1   \* NewRingBuffer is tried with capacities -MinCap .. MaxCap
MaxCap     == 3
MaxVal     == 2   \* SpecRB appends values 0 .. MaxVal
MaxAppends == 4   \* Append calls per behaviour (SpecRB, SpecConc)
Capacity   == 2   \* the tracker's buffer capacity (3600 in NewAPMTracker)
MaxEvents  == 3   \* input events per behaviour (Spec)
MaxTicks   == 2   \* clock advances per behaviour (Spec)

\* The amounts, in ms, by which the clock advances in one step: 59999 is the
\* last ms of the last bucket, 60000 the edge of the window, 60000 + 1 the
\* first ms past it.
Jumps == {1, 59999, 60000}

----------------------------------------------------------------------------
(* Constants of the program *)

WindowMillis         == 60000  \* time.Minute, calculateCurrentAPM
MillisPerMinute      == 60000  \* Duration.Minutes(), calculateAverageAPM
GraphWindowMillis    == 60000  \* now-t <= 60000, updateGraph
BucketMillis         == 1000   \* (now-t)/1000, updateGraph
BucketCount          == 60     \* make([]int, 60), updateGraph
UpdateIntervalMillis == 500    \* updateInterval, NewAPMTracker

----------------------------------------------------------------------------
(* Helpers *)

Min(a, b) == IF a < b THEN a ELSE b
Max(a, b) == IF a > b THEN a ELSE b

Zeros(n) == [i \in 1..n |-> 0]

\* The last Min(Len(h), c) elements of h, oldest first.
LastN(h, c) == SubSeq(h, Len(h) - Min(Len(h), c) + 1, Len(h))

----------------------------------------------------------------------------
(* RingBuffer *)

\* make([]int64, capacity) panics for a negative length.
NewRingBufferPanics(capacity) == capacity < 0

NewRingBuffer(capacity) ==
    [data |-> Zeros(capacity), size |-> 0, capacity |-> capacity, head |-> 0]

\* Append indexes data[head] on a full buffer: out of range when data is empty.
AppendPanics(b) == ~(b.size < b.capacity) /\ ~(b.head < Len(b.data))

\* The store of Append: data[size] = value, or data[head] = value.
AppendStore(b, value) ==
    IF b.size < b.capacity
    THEN [b EXCEPT !.data[b.size + 1] = value]
    ELSE [b EXCEPT !.data[b.head + 1] = value]

\* Mutant: the size grows on every append, full or not.
AppendAdvanceNoWrap(b) == [b EXCEPT !.size = b.size + 1]

\* Mutant: head advances without wrapping (the % capacity is missing).
AppendAdvanceNoMod(b) ==
    IF b.size < b.capacity
    THEN [b EXCEPT !.size = b.size + 1]
    ELSE [b EXCEPT !.head = b.head + 1]

\* The counter update of Append: size++, or head = (head + 1) % capacity.
AppendAdvance(b) ==
    IF b.size < b.capacity
    THEN [b EXCEPT !.size = b.size + 1]
    ELSE [b EXCEPT !.head = (b.head + 1) % b.capacity]

\* RingBuffer.Append (Append itself names the operator of Sequences).
RingBufferAppend(b, value) == AppendAdvance(AppendStore(b, value))

\* Mutant: the copy starts at slot 0 instead of head.
GetAllElemNoHead(b, i) == b.data[(i % b.capacity) + 1]

\* One iteration of GetAll's loop: the element copied to result[i].
GetAllElem(b, i) == b.data[((b.head + i) % b.capacity) + 1]

RingBufferGetAll(b) == [i \in 1..b.size |-> GetAllElem(b, i - 1)]

\* Mutant: GetAll consumes what it returns.
GetAllBufferDrained(b) == [b EXCEPT !.size = 0, !.head = 0]

\* Mutant: GetAll returns a slice of rb.data itself (rb.data[:rb.size]).
GetAllBackingShared == "data"

\* The array behind the slice GetAll returns: result := make([]int64,
\* rb.size) is a new array, filled element by element.
GetAllBacking == "fresh"

\* The buffer after GetAll: GetAll only reads data, size and head.
GetAllBuffer(b) == b

----------------------------------------------------------------------------
(* SpecRB: the buffer alone.  NewRingBuffer is called with any capacity in *)
(* -MinCap .. MaxCap, then Append and GetAll are called in any order.      *)

ConcIdle ==
    /\ wlocked = FALSE /\ readers = 0
    /\ pcW = "idle" /\ wval = 0
    /\ pcR = "idle" /\ ri = 0 /\ result = <<>> /\ kCall = 0 /\ kRet = 0

TrkIdle ==
    /\ clock = 0 /\ ticks = 0 /\ startTime = 0 /\ peakAPM = 0
    /\ running = FALSE /\ proc = "none"
    /\ pcGui = "none" /\ armed = 0 /\ dueAt = 0
    /\ minuteAgo = 0 /\ actions = <<>>
    /\ currentAPM = 0 /\ elapsed = 0
    /\ avgAPM = [kind |-> "none", num |-> 0, den |-> 1]
    /\ now = 0 /\ data = <<>> /\ buckets = <<>> /\ accessed = {}
    /\ rates = {} /\ polls = 0

RBIdle == capArg = 0 /\ built = FALSE /\ snap = <<>> /\ snapBacking = "fresh"

InitRB ==
    /\ capArg \in (0 - MinCap)..MaxCap
    /\ built = FALSE
    /\ snap = <<>> /\ snapBacking = "fresh"
    /\ rb = NewRingBuffer(0)
    /\ fault = "none"
    /\ hist = <<>>
    /\ ConcIdle /\ TrkIdle

RB_New ==
    /\ ~built
    /\ built' = TRUE
    /\ IF NewRingBufferPanics(capArg)
       THEN fault' = "makeslice: len out of range" /\ rb' = rb
       ELSE fault' = fault /\ rb' = NewRingBuffer(capArg)
    /\ UNCHANGED <<hist, capArg, snap, snapBacking, concVars, trkVars>>

RB_Append(value) ==
    /\ built /\ fault = "none"
    /\ Len(hist) < MaxAppends
    /\ hist' = Append(hist, value)
    /\ IF AppendPanics(rb)
       THEN fault' = "index out of range" /\ rb' = rb
       ELSE fault' = fault /\ rb' = RingBufferAppend(rb, value)
    /\ UNCHANGED <<rbVars, concVars, trkVars>>

RB_GetAll ==
    /\ built /\ fault = "none"
    /\ snap' = RingBufferGetAll(rb)
    /\ snapBacking' = GetAllBacking
    /\ rb' = GetAllBuffer(rb)
    /\ UNCHANGED <<fault, hist, capArg, built, concVars, trkVars>>

NextRB ==
    \/ RB_New
    \/ \E value \in 0..MaxVal : RB_Append(value)
    \/ RB_GetAll

SpecRB == InitRB /\ [][NextRB]_vars

----------------------------------------------------------------------------
(* Claims about the buffer alone (SpecRB) *)

RECURSIVE AppendAll(_, _)
\* The buffer after appending the elements of s in order.
AppendAll(b, s) ==
    IF s = <<>> THEN b ELSE AppendAll(RingBufferAppend(b, Head(s)), Tail(s))

\* C1: for every capacity > 0 and every n Append calls on a new buffer, the
\* slice GetAll returns has length exactly min(n, capacity).
C1_SnapshotLength ==
    (built /\ capArg > 0) =>
        Len(RingBufferGetAll(rb)) = Min(Len(hist), capArg)

\* C1 witness: more appends than the capacity, and GetAll returned capacity
\* elements.
C1_Witness ==
    /\ built /\ capArg = 2 /\ Len(hist) = 4
    /\ Len(snap) = 2 /\ snap = RingBufferGetAll(rb)

\* C2: after n > capacity appends GetAll returns exactly the last capacity
\* appended values, oldest first; capacity 5 and appends 0,1000,...,5000 give
\* [1000,2000,3000,4000,5000].
C2_KeepsNewestInOrder ==
    /\ (built /\ capArg > 0 /\ Len(hist) > capArg) =>
           RingBufferGetAll(rb) = LastN(hist, capArg)
    /\ RingBufferGetAll(AppendAll(NewRingBuffer(5),
                                  <<0, 1000, 2000, 3000, 4000, 5000>>))
           = <<1000, 2000, 3000, 4000, 5000>>

\* C2 witness: capacity 3, four appends, the first one evicted and the
\* remaining three returned in the order they were appended.
C2_Witness ==
    /\ built /\ capArg = 3 /\ hist = <<2, 0, 1, 2>>
    /\ snap = <<0, 1, 2>>

\* C8: constructing a buffer with capacity <= 0 fails, so that no Append or
\* GetAll ever runs on a buffer of non-positive capacity.
C8_NonPositiveCapacityRejected ==
    (built /\ capArg <= 0) => fault # "none"

----------------------------------------------------------------------------
(* SpecConc: one goroutine calls Append, another calls GetAll, on a buffer *)
(* of any capacity 1 .. MaxCap.  Every lock operation, the store and the   *)
(* counter update of Append, and every iteration of GetAll's copy loop is  *)
(* a step of its own.  The k-th Append appends the value k.                *)

\* rb.mutex.Lock() returns once no writer and no reader holds the mutex.
CanLock(w, r) == ~w /\ r = 0

\* Mutant: the read lock is granted while a writer holds the mutex.
CanRLockAlways(w) == TRUE

\* rb.mutex.RLock() returns once no writer holds the mutex.
CanRLock(w) == ~w

InitConc ==
    /\ capArg \in 1..MaxCap
    /\ built = TRUE
    /\ snap = <<>> /\ snapBacking = "fresh"
    /\ rb = NewRingBuffer(capArg)
    /\ fault = "none"
    /\ hist = <<>>
    /\ ConcIdle /\ TrkIdle

\* Append is called.
W_Call ==
    /\ pcW = "idle"
    /\ Len(hist) < MaxAppends
    /\ wval' = Len(hist) + 1
    /\ pcW' = "lock"
    /\ UNCHANGED <<bufVars, rbVars, trkVars,
                   wlocked, readers, pcR, ri, result, kCall, kRet>>

W_Lock ==
    /\ pcW = "lock"
    /\ CanLock(wlocked, readers)
    /\ wlocked' = TRUE
    /\ pcW' = "store"
    /\ UNCHANGED <<bufVars, rbVars, trkVars,
                   readers, wval, pcR, ri, result, kCall, kRet>>

W_Store ==
    /\ pcW = "store"
    /\ rb' = AppendStore(rb, wval)
    /\ pcW' = "advance"
    /\ UNCHANGED <<fault, hist, rbVars, trkVars,
                   wlocked, readers, wval, pcR, ri, result, kCall, kRet>>

W_Advance ==
    /\ pcW = "advance"
    /\ rb' = AppendAdvance(rb)
    /\ hist' = Append(hist, wval)
    /\ pcW' = "unlock"
    /\ UNCHANGED <<fault, rbVars, trkVars,
                   wlocked, readers, wval, pcR, ri, result, kCall, kRet>>

W_Unlock ==
    /\ pcW = "unlock"
    /\ wlocked' = FALSE
    /\ pcW' = "idle"
    /\ UNCHANGED <<bufVars, rbVars, trkVars,
                   readers, wval, pcR, ri, result, kCall, kRet>>

\* GetAll is called.
R_Call ==
    /\ pcR \in {"idle", "done"}
    /\ kCall' = Len(hist)
    /\ pcR' = "rlock"
    /\ UNCHANGED <<bufVars, rbVars, trkVars,
                   wlocked, readers, pcW, wval, ri, result, kRet>>

R_RLock ==
    /\ pcR = "rlock"
    /\ CanRLock(wlocked)
    /\ readers' = readers + 1
    /\ pcR' = "make"
    /\ UNCHANGED <<bufVars, rbVars, trkVars,
                   wlocked, pcW, wval, ri, result, kCall, kRet>>

\* result := make([]int64, rb.size); i := 0
R_Make ==
    /\ pcR = "make"
    /\ result' = Zeros(rb.size)
    /\ ri' = 0
    /\ pcR' = "loop"
    /\ UNCHANGED <<bufVars, rbVars, trkVars,
                   wlocked, readers, pcW, wval, kCall, kRet>>

\* i < rb.size: result[i] = rb.data[(rb.head+i)%rb.capacity]; i++
R_Copy ==
    /\ pcR = "loop"
    /\ ri < rb.size
    /\ result' = [result EXCEPT ![ri + 1] = GetAllElem(rb, ri)]
    /\ ri' = ri + 1
    /\ UNCHANGED <<bufVars, rbVars, trkVars,
                   wlocked, readers, pcW, wval, pcR, kCall, kRet>>

\* The loop ends, the deferred RUnlock runs and GetAll returns result.
R_RUnlock ==
    /\ pcR = "loop"
    /\ ~(ri < rb.size)
    /\ readers' = readers - 1
    /\ kRet' = Len(hist)
    /\ pcR' = "done"
    /\ UNCHANGED <<bufVars, rbVars, trkVars,
                   wlocked, pcW, wval, ri, result, kCall>>

NextConc ==
    \/ W_Call \/ W_Lock \/ W_Store \/ W_Advance \/ W_Unlock
    \/ R_Call \/ R_RLock \/ R_Make \/ R_Copy \/ R_RUnlock

SpecConc == InitConc /\ [][NextConc]_vars

\* C9: with one goroutine appending and one taking snapshots, every slice
\* GetAll returns is the buffer's logical contents (the last min(k, capacity)
\* appended values, oldest first) for some number k of appends done between
\* the call and the return of GetAll; never a half-applied Append.
C9_SnapshotIsLinearizable ==
    pcR = "done" =>
        \E k \in kCall..kRet : result = LastN(SubSeq(hist, 1, k), rb.capacity)

\* C9 witness: GetAll was called while an Append on a full buffer was under
\* way, waited for it, and returned the contents that include that append.
C9_Witness ==
    /\ pcR = "done"
    /\ kCall < kRet /\ kCall >= rb.capacity
    /\ result = LastN(SubSeq(hist, 1, kRet), rb.capacity)

----------------------------------------------------------------------------
(* APMTracker: the computations *)

\* Go's integer division truncates toward zero.
GoDiv(a, b) == IF a >= 0 THEN a \div b ELSE 0 - ((0 - a) \div b)

RECURSIVE scanBack(_, _, _)
\* The loop of calculateCurrentAPM from index i (1-based) down: count entries
\* until the first one older than minuteAgo.
scanBack(acts, i, cutoff) ==
    IF i = 0 THEN 0
    ELSE IF acts[i] < cutoff THEN 0
    ELSE 1 + scanBack(acts, i - 1, cutoff)

RECURSIVE scanBackExclusive(_, _, _)
\* Mutant: an entry exactly at the cutoff ends the scan.
scanBackExclusive(acts, i, cutoff) ==
    IF i = 0 THEN 0
    ELSE IF acts[i] <= cutoff THEN 0
    ELSE 1 + scanBackExclusive(acts, i - 1, cutoff)

calculateCurrentAPMExclusive(acts, cutoff) ==
    scanBackExclusive(acts, Len(acts), cutoff)

\* calculateCurrentAPM, given the snapshot and minuteAgo it read.
calculateCurrentAPM(acts, cutoff) == scanBack(acts, Len(acts), cutoff)

\* Mutant: the elapsed time is taken in seconds (Seconds() for Minutes()).
calculateAverageAPMPerSecond(n, elapsedMs) ==
    IF elapsedMs = 0
    THEN [kind |-> IF n = 0 THEN "NaN" ELSE "+Inf", num |-> n, den |-> 0]
    ELSE [kind |-> "finite", num |-> n * 1000, den |-> elapsedMs]

\* calculateAverageAPM, given len(GetAll()) and the elapsed ms: the float64
\* quotient n / (elapsed / 60000).  A finite quotient is kept as the fraction
\* num / den; n / 0 is +Inf for n > 0 and NaN for n = 0.
calculateAverageAPM(n, elapsedMs) ==
    IF elapsedMs = 0
    THEN [kind |-> IF n = 0 THEN "NaN" ELSE "+Inf", num |-> n, den |-> 0]
    ELSE [kind |-> "finite", num |-> n * MillisPerMinute, den |-> elapsedMs]

RECURSIVE bucketLoop(_, _, _, _)
\* The loop of updateGraph over data from index i (1-based) on.  st holds the
\* buckets, the indices used so far and whether an index was out of range,
\* which ends the loop with a panic.
bucketLoop(d, i, n, st) ==
    IF i > Len(d) THEN st
    ELSE IF n - d[i] <= GraphWindowMillis
         THEN LET idx == GoDiv(n - d[i], BucketMillis) IN
              IF idx >= 0 /\ idx < BucketCount
              THEN bucketLoop(d, i + 1, n,
                       [st EXCEPT !.buckets[idx + 1] = @ + 1,
                                  !.accessed = @ \cup {idx}])
              ELSE [st EXCEPT !.panicked = TRUE, !.accessed = @ \cup {idx}]
         ELSE bucketLoop(d, i + 1, n, st)

\* The buckets of updateGraph for the snapshot d at time n.
updateGraph(d, n) ==
    bucketLoop(d, 1, n,
               [buckets |-> Zeros(BucketCount), accessed |-> {},
                panicked |-> FALSE])

\* Mutant: updateGUI sets two timers for its successor.
afterFuncTwice(a) == a + 2

\* time.AfterFunc(a.updateInterval, a.updateGUI): one more pending start.
afterFunc(a) == a + 1

\* The values the read of a.running in updateGUI may return.  onClosing
\* writes the field on the GUI goroutine and updateGUI reads it on a timer
\* goroutine with no lock or channel between them (a.mutex is never used):
\* a data race, in which the read may still return the value written by
\* NewAPMTracker after onClosing has written false.
runningSeen(r) == IF r THEN {TRUE} ELSE {TRUE, FALSE}

\* Mutant: the peak is overwritten with the current rate.
foldPeakLast(peak, cur) == cur

\* a.peakAPM = int(math.Max(float64(a.peakAPM), float64(currentAPM)))
foldPeak(peak, cur) == Max(peak, cur)

----------------------------------------------------------------------------
(* Spec: the tracker.  Init is the state when setupGUI has started the     *)
(* input loop and the refresh chain.  The clock starts at 0 and advances   *)
(* by the amounts in Jumps; it is read in whole ms, so that two readings   *)
(* may be equal.  Append and GetAll are single steps here (rb.mutex makes  *)
(* them so, see SpecConc); each clock reading of the refresh chain and     *)
(* each GetAll after it are steps of their own, so that events and time    *)
(* may come between them.                                                  *)

Init ==
    /\ rb = NewRingBuffer(Capacity)
    /\ fault = "none"
    /\ hist = <<>>
    /\ RBIdle /\ ConcIdle
    /\ clock = 0 /\ ticks = 0
    /\ startTime = 0
    /\ peakAPM = 0
    /\ running = TRUE
    /\ proc = "up"
    /\ pcGui = "start" /\ armed = 1 /\ dueAt = 0
    /\ minuteAgo = 0 /\ actions = <<>> /\ currentAPM = 0
    /\ elapsed = 0 /\ avgAPM = [kind |-> "none", num |-> 0, den |-> 1]
    /\ now = 0 /\ data = <<>> /\ buckets = <<>> /\ accessed = {}
    /\ rates = {} /\ polls = 0

\* Time passes.
Tick(d) ==
    /\ proc = "up"
    /\ ticks < MaxTicks
    /\ clock' = clock + d
    /\ ticks' = ticks + 1
    /\ UNCHANGED <<bufVars, rbVars, concVars,
                   startTime, running, proc,
                   guiVars>>

\* inputLoop receives a KeyDown or MouseDown event and calls onAction, which
\* appends the time it reads from the clock.
onAction ==
    /\ proc = "up"
    /\ Len(hist) < MaxEvents
    /\ rb' = RingBufferAppend(rb, clock)
    /\ hist' = Append(hist, clock)
    /\ UNCHANGED <<fault, rbVars, concVars,
                   clock, ticks, startTime, running, proc, guiVars>>

\* updateGUI starts, at once the first time and when its timer fires later:
\* it returns if it reads the tracker as not running, else
\* calculateCurrentAPM reads the clock.
updateGUI_enter ==
    /\ proc = "up"
    /\ armed > 0
    /\ \/ pcGui = "start"
       \/ pcGui = "timer" /\ clock >= dueAt
    /\ armed' = armed - 1
    /\ \E seen \in runningSeen(running) :
         IF ~seen
         THEN pcGui' = "ended" /\ minuteAgo' = minuteAgo
         ELSE pcGui' = "cur" /\ minuteAgo' = clock - WindowMillis
    /\ UNCHANGED <<bufVars, rbVars, concVars,
                   clock, ticks, startTime, running, proc,
                   dueAt, actions, currentAPM, elapsed, avgAPM,
                   now, data, buckets, accessed, rates, polls, peakAPM>>

\* calculateCurrentAPM takes its snapshot, counts and returns.
updateGUI_current ==
    /\ proc = "up"
    /\ pcGui = "cur"
    /\ actions' = RingBufferGetAll(rb)
    /\ currentAPM' = calculateCurrentAPM(actions', minuteAgo)
    /\ rates' = rates \cup {currentAPM'}
    /\ rb' = GetAllBuffer(rb)
    /\ pcGui' = "avgTime"
    /\ UNCHANGED <<fault, hist, rbVars, concVars,
                   clock, ticks, startTime, running, proc,
                   armed, dueAt, minuteAgo, elapsed, avgAPM,
                   now, data, buckets, accessed, polls, peakAPM>>

\* calculateAverageAPM reads the elapsed time.
updateGUI_elapsed ==
    /\ proc = "up"
    /\ pcGui = "avgTime"
    /\ elapsed' = clock - startTime
    /\ pcGui' = "avg"
    /\ UNCHANGED <<bufVars, rbVars, concVars,
                   clock, ticks, startTime, running, proc,
                   armed, dueAt, minuteAgo, actions, currentAPM, avgAPM,
                   now, data, buckets, accessed, rates, polls, peakAPM>>

\* calculateAverageAPM takes its snapshot, divides and returns.
updateGUI_average ==
    /\ proc = "up"
    /\ pcGui = "avg"
    /\ avgAPM' = calculateAverageAPM(Len(RingBufferGetAll(rb)), elapsed)
    /\ rb' = GetAllBuffer(rb)
    /\ pcGui' = "peak"
    /\ UNCHANGED <<fault, hist, rbVars, concVars,
                   clock, ticks, startTime, running, proc,
                   armed, dueAt, minuteAgo, actions, currentAPM, elapsed,
                   now, data, buckets, accessed, rates, polls, peakAPM>>

\* updateGUI folds the current rate into the peak; updateGraph reads the
\* clock.
updateGUI_peak ==
    /\ proc = "up"
    /\ pcGui = "peak"
    /\ peakAPM' = foldPeak(peakAPM, currentAPM)
    /\ polls' = polls + 1
    /\ now' = clock
    /\ pcGui' = "graph"
    /\ UNCHANGED <<bufVars, rbVars, concVars,
                   clock, ticks, startTime, running, proc,
                   armed, dueAt, minuteAgo, actions, currentAPM, elapsed, avgAPM,
                   data, buckets, accessed, rates>>

\* updateGraph takes its snapshot and fills the buckets; an index out of
\* range panics, which ends the program.
updateGUI_graph ==
    /\ proc = "up"
    /\ pcGui = "graph"
    /\ data' = RingBufferGetAll(rb)
    /\ rb' = GetAllBuffer(rb)
    /\ LET st == updateGraph(data', now) IN
         /\ buckets' = st.buckets
         /\ accessed' = st.accessed
         /\ IF st.panicked
            THEN /\ fault' = "index out of range"
                 /\ proc' = "crashed"
                 /\ pcGui' = "panicked"
            ELSE /\ fault' = fault
                 /\ proc' = proc
                 /\ pcGui' = "schedule"
    /\ UNCHANGED <<hist, rbVars, concVars,
                   clock, ticks, startTime, running,
                   armed, dueAt, minuteAgo, actions, currentAPM, elapsed, avgAPM,
                   now, rates, polls, peakAPM>>

\* time.AfterFunc(a.updateInterval, a.updateGUI), and updateGUI returns: its
\* locals and those of the functions it called are gone.
updateGUI_schedule ==
    /\ proc = "up"
    /\ pcGui = "schedule"
    /\ dueAt' = clock + UpdateIntervalMillis
    /\ armed' = afterFunc(armed)
    /\ pcGui' = "timer"
    /\ minuteAgo' = 0 /\ actions' = <<>> /\ currentAPM' = 0
    /\ elapsed' = 0 /\ avgAPM' = [kind |-> "none", num |-> 0, den |-> 1]
    /\ now' = 0 /\ data' = <<>> /\ buckets' = <<>> /\ accessed' = {}
    /\ UNCHANGED <<bufVars, rbVars, concVars,
                   clock, ticks, startTime, running, proc,
                   rates, polls, peakAPM>>

\* Mutant: closing flips running (a.running = !a.running), at any time.
onClosingToggle ==
    /\ proc = "up"
    /\ running' = ~running
    /\ UNCHANGED <<bufVars, rbVars, concVars,
                   clock, ticks, startTime, proc,
                   guiVars>>

\* The window is closed: onClosing clears running and asks the app to quit.
onClosing ==
    /\ proc = "up"
    /\ running
    /\ running' = FALSE
    /\ UNCHANGED <<bufVars, rbVars, concVars,
                   clock, ticks, startTime, proc,
                   guiVars>>

\* After Quit, ShowAndRun, Run and main return: the process and all its
\* goroutines end.
mainReturn ==
    /\ proc = "up"
    /\ ~running
    /\ proc' = "exited"
    /\ UNCHANGED <<bufVars, rbVars, concVars,
                   clock, ticks, startTime, running,
                   guiVars>>

Next ==
    \/ \E d \in Jumps : Tick(d)
    \/ onAction
    \/ updateGUI_enter
    \/ updateGUI_current
    \/ updateGUI_elapsed
    \/ updateGUI_average
    \/ updateGUI_peak
    \/ updateGUI_graph
    \/ updateGUI_schedule
    \/ onClosing
    \/ mainReturn

Spec == Init /\ [][Next]_vars

----------------------------------------------------------------------------
(* Claims about the tracker (Spec) *)

NonDecreasing(s) == \A i \in 1..(Len(s) - 1) : s[i] <= s[i + 1]

RECURSIVE SumSeq(_)
SumSeq(s) == IF s = <<>> THEN 0 ELSE Head(s) + SumSeq(Tail(s))

\* The greatest element of a non-empty set of integers.
SetMax(S) == CHOOSE x \in S : \A y \in S : y <= x

\* calculateCurrentAPM has returned and its cutoff and snapshot are those of
\* the value in currentAPM.
CurrentComputed == pcGui \in {"avgTime", "avg", "peak", "graph", "schedule", "panicked"}

\* calculateAverageAPM has returned the value in avgAPM for elapsed.
AverageComputed == pcGui \in {"peak", "graph", "schedule", "panicked"}

\* updateGraph's loop has run, or panicked, on data at now.
GraphComputed == pcGui \in {"schedule", "panicked"}

\* The events of t = 0, 1000, ..., 59000.
OnePerSecond == [i \in 1..60 |-> (i - 1) * 1000]

\* calculateCurrentAPM at now = 60000 for these events.
OnePerSecondRate == calculateCurrentAPM(OnePerSecond, 60000 - WindowMillis)

\* C3: when the snapshot is in non-decreasing order and now is >= every
\* entry, calculateCurrentAPM returns the number of entries t with
\* now - 60000 <= t <= now; an entry exactly at now - 60000 is counted:
\* events at 0, 1000, ..., 59000 give 60 at now = 60000.
C3_CurrentRateCountsWindow ==
    /\ (/\ CurrentComputed
        /\ NonDecreasing(actions)
        /\ \A i \in DOMAIN actions : actions[i] <= minuteAgo + WindowMillis)
       => currentAPM =
              Cardinality({i \in DOMAIN actions :
                               /\ minuteAgo <= actions[i]
                               /\ actions[i] <= minuteAgo + WindowMillis})
    /\ OnePerSecondRate = 60

\* C3 witness: the newest entry lies exactly at the cutoff and is counted, an
\* older one lies before it and ends the scan.
C3_Witness ==
    /\ CurrentComputed
    /\ Len(actions) = 2
    /\ actions[2] = minuteAgo /\ actions[1] < minuteAgo
    /\ currentAPM = 1

\* C4: with zero time elapsed since startTime calculateAverageAPM returns
\* the defined zero value: no +Inf, no NaN.
C4_AverageRateZeroElapsed ==
    (AverageComputed /\ elapsed = 0) =>
        (avgAPM.kind = "finite" /\ avgAPM.num = 0)

\* C5: updateGraph uses a bucket only at an index (now - t) / 1000 within
\* 0 .. 59; a timestamp exactly at now - 60000 or later than now causes no
\* access out of range.
C5_BucketIndexInRange ==
    /\ accessed \subseteq 0..(BucketCount - 1)
    /\ fault # "index out of range"

\* C6: the peak equals the greatest value calculateCurrentAPM has returned
\* to the polls made so far, and 0 before the first poll.
C6_PeakIsMaxOfPolls ==
    pcGui \notin {"avgTime", "avg", "peak"} =>
        peakAPM = SetMax(rates \cup {0})

\* C6 witness: a second poll returned a rate below the peak and was folded in.
C6_Witness ==
    /\ pcGui = "graph" /\ polls = 2
    /\ currentAPM = 0 /\ peakAPM > 0
    /\ rates = {0, peakAPM}

\* C7: once the tracker is stopped (running = false), a later input event
\* leaves the ring buffer's data, size and head unchanged.
C7_StoppedRecordsNothing == [][~running => rb' = rb]_vars

\* C10: for a snapshot whose entries are all <= now, updateGraph yields 60
\* buckets whose counts sum to the number of entries within the trailing
\* window (now - 60000, now]; for an empty buffer, 60 zeros.
C10_HistogramSumsToWindow ==
    (GraphComputed /\ \A i \in DOMAIN data : data[i] <= now) =>
        /\ pcGui # "panicked"
        /\ Len(buckets) = BucketCount
        /\ SumSeq(buckets) =
               Cardinality({i \in DOMAIN data :
                                now - data[i] < GraphWindowMillis})

\* C11: the peak never decreases and is never negative: after every step
\* (event recorded, refresh step, stop) peakAPM is >= its value before the
\* step and >= 0.
C11_PeakMonotone ==
    /\ [](peakAPM >= 0)
    /\ [][peakAPM' >= peakAPM]_vars

\* C11 witness: the tracker has been stopped after a poll whose rate lay
\* below the peak was folded in, and the peak kept its value.
C11_Witness ==
    /\ ~running /\ polls >= 2
    /\ pcGui = "graph"
    /\ currentAPM < peakAPM

\* C12: the queries never change the ring buffer: over every step of the
\* refresh chain (calculateCurrentAPM, calculateAverageAPM, the peak update,
\* updateGraph) data, size and head keep their values, and so do the other
\* fields of the tracker (startTime, running); of the tracker's state only
\* the peak changes.
C12_QueriesLeaveBuffer ==
    [][pcGui' # pcGui =>
           /\ rb' = rb
           /\ hist' = hist
           /\ startTime' = startTime
           /\ running' = running]_vars

\* C12 witness: a whole poll has run on a wrapped, full buffer, raised the
\* peak and left the buffer full.
C12_Witness ==
    /\ pcGui = "schedule"
    /\ rb.size = rb.capacity /\ rb.head # 0
    /\ peakAPM = rb.capacity
    /\ actions = RingBufferGetAll(rb) /\ data = actions

----------------------------------------------------------------------------
(* More claims about the buffer alone (SpecRB) *)

\* What the holder of the slice the last GetAll returned reads in it now: its
\* own elements if the slice has an array of its own, the buffer's slots if
\* it points into rb.data.
SnapView ==
    IF snapBacking = "data"
    THEN [i \in 1..Len(snap) |-> rb.data[i]]
    ELSE snap

\* C13: the slice GetAll returned is a copy: an Append made after GetAll
\* returned leaves its length and its values unchanged.
C13_SnapshotIsCopy == [][hist' # hist => SnapView' = SnapView]_vars

\* C13 witness: GetAll returned [0, 1] from a buffer of capacity 2, two
\* later appends overwrote both slots, and the slice still reads [0, 1].
C13_Witness ==
    /\ built /\ capArg = 2
    /\ hist = <<0, 1, 2, 2>> /\ rb.data = <<2, 2>>
    /\ snap = <<0, 1>> /\ SnapView = <<0, 1>>

\* A buffer of positive capacity has been built and has not panicked.
Usable == built /\ capArg > 0 /\ fault = "none"

\* C17: for a buffer of capacity > 0, in every reachable state
\* 0 <= size <= capacity, 0 <= head < capacity and head = 0 while
\* size < capacity; size never decreases; an Append on a full buffer changes
\* only the slot at head, then advances head by one modulo capacity, and
\* leaves size unchanged.
C17_BufferShape ==
    /\ [](Usable =>
             /\ 0 <= rb.size /\ rb.size <= rb.capacity
             /\ 0 <= rb.head /\ rb.head < rb.capacity
             /\ (rb.size < rb.capacity => rb.head = 0)
             /\ rb.capacity = capArg /\ Len(rb.data) = capArg)
    /\ [][Usable => rb'.size >= rb.size]_vars
    /\ [][(Usable /\ hist' # hist /\ rb.size = rb.capacity) =>
              /\ rb'.size = rb.size
              /\ rb'.head = (rb.head + 1) % rb.capacity
              /\ rb'.data[rb.head + 1] = hist'[Len(hist')]
              /\ \A i \in 1..rb.capacity :
                     i # rb.head + 1 => rb'.data[i] = rb.data[i]]_vars

\* C17 witness: capacity 2, four appends: the buffer is full, both slots
\* were overwritten in turn and head has wrapped back to 0.
C17_Witness ==
    /\ Usable /\ capArg = 2
    /\ hist = <<0, 1, 2, 0>>
    /\ rb.size = 2 /\ rb.head = 0 /\ rb.data = <<2, 0>>

----------------------------------------------------------------------------
(* More claims about the tracker (Spec) *)

\* C14: the tracker is not restartable: once running is false it is false
\* in every later state; no operation sets it back to true.
C14_NoRestart == [][~running => ~running']_vars

\* C14 witness: the tracker was stopped after a poll, the refresh chain saw
\* it and ended, the process has exited, and running is still false.
C14_Witness ==
    /\ ~running /\ polls >= 1
    /\ pcGui = "ended" /\ proc = "exited"

RECURSIVE GCD(_, _)
GCD(a, b) == IF b = 0 THEN a ELSE GCD(b, a % b)

\* The fractions a / b and c / d, b > 0 and d > 0, are equal (compared in
\* lowest terms, which keeps the numbers small).
SameFraction(a, b, c, d) ==
    /\ a \div GCD(a, b) = c \div GCD(c, d)
    /\ b \div GCD(a, b) = d \div GCD(c, d)

\* calculateAverageAPM for 10 stored events and 2 minutes elapsed.
TenInTwoMinutes == calculateAverageAPM(10, 120000)

\* C15: when time has elapsed since startTime, calculateAverageAPM returns
\* the number of timestamps stored in the buffer divided by the elapsed
\* minutes: result * elapsedMillis = size * 60000; 10 events in exactly 2
\* minutes give 5.
C15_AverageIsSizePerMinute ==
    /\ [][(pcGui = "avg" /\ pcGui' = "peak" /\ elapsed > 0) =>
              /\ avgAPM'.kind = "finite"
              /\ avgAPM'.den > 0
              /\ SameFraction(avgAPM'.num, avgAPM'.den,
                              rb.size * 60000, elapsed)]_vars
    /\ [](/\ TenInTwoMinutes.kind = "finite"
          /\ TenInTwoMinutes.num = 5 * TenInTwoMinutes.den)

\* C15 witness: two events stored, one minute elapsed, average 2 per minute.
C15_Witness ==
    /\ pcGui = "peak"
    /\ elapsed = 60000 /\ rb.size = 2
    /\ avgAPM.kind = "finite" /\ avgAPM.num = 2 * avgAPM.den

\* C16: with the one producer appending the time it reads from a clock that
\* never goes back, the buffer's contents read oldest to newest are in
\* non-decreasing order in every reachable state, before and after the
\* buffer wraps.
C16_ContentsNonDecreasing ==
    /\ NonDecreasing(RingBufferGetAll(rb))
    /\ RingBufferGetAll(rb) = LastN(hist, rb.capacity)

\* C16 witness: three events at increasing times on a buffer of capacity 2:
\* the buffer has wrapped and reads the last two, in order.
C16_Witness ==
    /\ Len(hist) = 3 /\ hist[1] < hist[2] /\ hist[2] < hist[3]
    /\ rb.capacity = 2 /\ rb.head = 1
    /\ RingBufferGetAll(rb) = <<hist[2], hist[3]>>

\* An invocation of updateGUI is between its running check and its return.
InProgress == pcGui \in {"cur", "avgTime", "avg", "peak", "graph", "schedule"}

\* C18: at most one invocation of updateGUI is in progress at any time: the
\* chain is started once and an invocation sets the timer of its one
\* successor only as its last step, so that no start of updateGUI is pending
\* while an invocation runs and no two are pending at once; the peak update
\* is then never interleaved with another and none is lost.
C18_SingleRefreshChain ==
    /\ armed \in {0, 1}
    /\ InProgress => armed = 0
    /\ pcGui \in {"start", "timer"} => armed = 1
    /\ \A r \in rates : pcGui \notin {"avgTime", "avg", "peak"} => peakAPM >= r

\* C18 witness: the second invocation of the chain, started by the timer of
\* the first, is in progress and no other start is pending.
C18_Witness ==
    /\ pcGui = "cur" /\ polls = 1
    /\ armed = 0 /\ clock >= dueAt /\ dueAt >= UpdateIntervalMillis

\* C19: after the tracker is stopped, a refresh that starts returns without
\* computing anything and without setting a timer, so that at most the one
\* refresh already past its running check completes; once the chain has
\* ended the peak never changes.
C19_RefreshEndsAfterStop ==
    /\ [][(~running /\ pcGui \in {"start", "timer"} /\ pcGui' # pcGui) =>
              (pcGui' = "ended" /\ armed' = 0 /\ peakAPM' = peakAPM)]_vars
    /\ [][pcGui = "ended" =>
              (pcGui' = "ended" /\ armed' = 0 /\ peakAPM' = peakAPM)]_vars

====
